---------------------------- MODULE Spec2Model ----------------------------
(***************************************************************************)
(* Discovergy smart-meter integration: the config flow                     *)
(* (config_flow.py), entity discovery and the polling sampler (sensor.py). *)
(*                                                                         *)
(* Python ints are unbounded and the published state is a binary64 float,  *)
(* so raw readings are modelled as arbitrary-precision integers (limb      *)
(* sequences, least significant limb first) and the scaling as IEEE-754    *)
(* round-to-nearest-even arithmetic on 53-bit significands.                *)
(***************************************************************************)
EXTENDS Integers, Sequences, FiniteSets, TLC

(***************************************************************************)
(* Arbitrary-precision naturals: <<l1, ..., ln>> with 0 <= li < Base,      *)
(* value = sum li * Base^(i-1), no high zero limb; zero is <<>>.           *)
(***************************************************************************)
\* 15-bit limbs: the product of two limbs stays within 32-bit integers
LimbBits == 3 * 5

Base == 2 ^ LimbBits

RECURSIVE LOfNat(_)
LOfNat(n) == IF n = 0 THEN <<>> ELSE <<n % Base>> \o LOfNat(n \div Base)

RECURSIVE LNorm(_)
LNorm(a) == IF a = <<>> THEN <<>>
            ELSE IF a[Len(a)] = 0 THEN LNorm(SubSeq(a, 1, Len(a) - 1))
            ELSE a

Limb(a, i) == IF i >= 1 /\ i <= Len(a) THEN a[i] ELSE 0

RECURSIVE LAddFrom(_, _, _, _)
LAddFrom(a, b, i, c) ==
    IF i > Len(a) /\ i > Len(b)
    THEN (IF c = 0 THEN <<>> ELSE <<c>>)
    ELSE LET s == Limb(a, i) + Limb(b, i) + c
         IN  <<s % Base>> \o LAddFrom(a, b, i + 1, s \div Base)

LAdd(a, b) == LAddFrom(a, b, 1, 0)

\* -1, 0, 1 as a < b, a = b, a > b (both normalised)
RECURSIVE LCmpFrom(_, _, _)
LCmpFrom(a, b, i) ==
    IF i = 0 THEN 0
    ELSE IF a[i] > b[i] THEN 1
    ELSE IF a[i] < b[i] THEN -1
    ELSE LCmpFrom(a, b, i - 1)

LCmp(a, b) == IF Len(a) > Len(b) THEN 1
              ELSE IF Len(a) < Len(b) THEN -1
              ELSE LCmpFrom(a, b, Len(a))

\* a - b for a >= b
RECURSIVE LSubFrom(_, _, _, _)
LSubFrom(a, b, i, borrow) ==
    IF i > Len(a) THEN <<>>
    ELSE LET d == Limb(a, i) - Limb(b, i) - borrow
         IN  <<(d + Base) % Base>> \o LSubFrom(a, b, i + 1, IF d < 0 THEN 1 ELSE 0)

LSub(a, b) == LNorm(LSubFrom(a, b, 1, 0))

\* a * m for a single limb m
RECURSIVE LMulSmallFrom(_, _, _, _)
LMulSmallFrom(a, m, i, c) ==
    IF i > Len(a)
    THEN (IF c = 0 THEN <<>> ELSE <<c>>)
    ELSE LET s == a[i] * m + c
         IN  <<s % Base>> \o LMulSmallFrom(a, m, i + 1, s \div Base)

LMulSmall(a, m) == LNorm(LMulSmallFrom(a, m, 1, 0))

LShlLimbs(a, k) == IF a = <<>> THEN <<>> ELSE [i \in 1..k |-> 0] \o a

RECURSIVE LMulFrom(_, _, _)
LMulFrom(a, b, i) ==
    IF i > Len(a) THEN <<>>
    ELSE LAdd(LShlLimbs(LMulSmall(b, a[i]), i - 1), LMulFrom(a, b, i + 1))

LMul(a, b) == LMulFrom(a, b, 1)

RECURSIVE SmallBitLen(_)
SmallBitLen(n) == IF n = 0 THEN 0 ELSE 1 + SmallBitLen(n \div 2)

LBitLen(a) == IF a = <<>> THEN 0
              ELSE (Len(a) - 1) * LimbBits + SmallBitLen(a[Len(a)])

\* bit i of a, the least significant bit being bit 1
LBit(a, i) == (Limb(a, ((i - 1) \div LimbBits) + 1) \div (2 ^ ((i - 1) % LimbBits))) % 2

\* a * 2^k
LShl(a, k) ==
    LET r == k % LimbBits
        c == [i \in 1..(Len(a) + 1) |->
                ((Limb(a, i) * (2 ^ r)) % Base) + (Limb(a, i - 1) \div (2 ^ (LimbBits - r)))]
    IN  LShlLimbs(LNorm(c), k \div LimbBits)

\* a \div 2^k
LShr(a, k) ==
    LET ls == k \div LimbBits
        r  == k % LimbBits
        b  == IF ls >= Len(a) THEN <<>> ELSE SubSeq(a, ls + 1, Len(a))
    IN  LNorm([i \in 1..Len(b) |->
                (b[i] \div (2 ^ r)) + ((Limb(b, i + 1) % (2 ^ r)) * (2 ^ (LimbBits - r)))])

\* the largest digit q with d * q <= r, found bit by bit
RECURSIVE QDigit(_, _, _, _)
QDigit(r, d, bit, acc) ==
    IF bit < 0 THEN acc
    ELSE LET t == acc + (2 ^ bit)
         IN  IF LCmp(LMulSmall(d, t), r) <= 0
             THEN QDigit(r, d, bit - 1, t)
             ELSE QDigit(r, d, bit - 1, acc)

\* schoolbook long division: <<quotient limbs i..Len(a), remainder>> (d # 0)
RECURSIVE LDivFrom(_, _, _)
LDivFrom(a, d, i) ==
    IF i > Len(a) THEN << <<>>, <<>> >>
    ELSE LET prev == LDivFrom(a, d, i + 1)
             r2   == LNorm(<<a[i]>> \o prev[2])
             qd   == QDigit(r2, d, LimbBits - 1, 0)
         IN  << <<qd>> \o prev[1], LSub(r2, LMulSmall(d, qd)) >>

LDivMod(a, d) == LET qr == LDivFrom(a, d, 1) IN <<LNorm(qr[1]), qr[2]>>

(***************************************************************************)
(* Python int: sign and magnitude.                                         *)
(***************************************************************************)
PyInt(neg, mag) == [neg |-> neg /\ mag # <<>>, mag |-> mag]

IntOf(n) == IF n < 0 THEN PyInt(TRUE, LOfNat(-n)) ELSE PyInt(FALSE, LOfNat(n))

IntNeg(a) == PyInt(~a.neg, a.mag)

IntAdd(a, b) ==
    IF a.neg = b.neg THEN PyInt(a.neg, LAdd(a.mag, b.mag))
    ELSE IF LCmp(a.mag, b.mag) >= 0 THEN PyInt(a.neg, LSub(a.mag, b.mag))
    ELSE PyInt(b.neg, LSub(b.mag, a.mag))

IntSub(a, b) == IntAdd(a, IntNeg(b))

IntMul(a, b) == PyInt(a.neg # b.neg, LMul(a.mag, b.mag))

RECURSIVE IntPow(_, _)
IntPow(a, n) == IF n = 0 THEN IntOf(1) ELSE IntMul(a, IntPow(a, n - 1))

(***************************************************************************)
(* Python float (binary64): value = (-1)^neg * mant * 2^exp with mant      *)
(* either zero or a 53-bit significand.  Exponents stay in the normal      *)
(* range for every value the model builds (no overflow, no subnormals).    *)
(***************************************************************************)
Binary64 == [precision |-> 53]

\* (-1)^neg * p * 2^e rounded to nearest, ties to even
RoundToDouble(neg, p, e) ==
    LET n == LBitLen(p)
        w == Binary64.precision
    IN  IF n = 0 THEN [neg |-> FALSE, mant |-> <<>>, exp |-> 0]
        ELSE IF n <= w
        THEN [neg |-> neg, mant |-> LShl(p, w - n), exp |-> e - (w - n)]
        ELSE LET sh   == n - w
                 q    == LShr(p, sh)
                 half == LBit(p, sh) = 1
                 low  == \E i \in 1..(sh - 1) : LBit(p, i) = 1
                 up   == half /\ (low \/ LBit(q, 1) = 1)
                 q2   == IF up THEN LAdd(q, <<1>>) ELSE q
             IN  IF LBitLen(q2) > w
                 THEN [neg |-> neg, mant |-> LShr(q2, 1), exp |-> e + sh + 1]
                 ELSE [neg |-> neg, mant |-> q2, exp |-> e + sh]

\* float(int)
IntToFloat(a) == RoundToDouble(a.neg, a.mag, 0)

\* float * float
FloatMul(x, y) == RoundToDouble(x.neg # y.neg, LMul(x.mant, y.mant), x.exp + y.exp)

\* int / int, correctly rounded (b # 0): the quotient is taken with two
\* guard bits and a sticky bit for the remainder
TrueDiv(a, b) ==
    LET k  == LBitLen(b.mag) + Binary64.precision + 2
        qr == LDivMod(LShl(a.mag, k), b.mag)
        p  == LAdd(LShl(qr[1], 1), IF qr[2] = <<>> THEN <<>> ELSE <<1>>)
    IN  RoundToDouble(a.neg # b.neg, p, -(k + 1))

\* int * float: the int is converted, then the floats are multiplied
IntTimesFloat(a, x) == FloatMul(IntToFloat(a), x)

(***************************************************************************)
(* Exceptions.  A call either returns a value or raises a class.           *)
(***************************************************************************)
NoExc == "none"

Ok(v) == [exc |-> NoExc, val |-> v]

Raise(cls) == [exc |-> cls, val |-> <<>>]

\* the (direct or indirect) base classes of each exception class
Bases ==
    [CannotConnect   |-> {"CannotConnect", "HomeAssistantError", "Exception"},
     InvalidAuth     |-> {"InvalidAuth", "HomeAssistantError", "Exception"},
     AbortFlow       |-> {"AbortFlow", "Exception"},
     ConnectionError |-> {"ConnectionError", "Exception"},
     ValueError      |-> {"ValueError", "Exception"},
     KeyError        |-> {"KeyError", "Exception"},
     IndexError      |-> {"IndexError", "Exception"},
     TypeError       |-> {"TypeError", "Exception"}]

IsInstance(cls, handler) == handler \in Bases[cls]

\* what the account API's calls can raise: a transport fault, or a fault
\* while decoding the response
ApiFaults == {"ConnectionError", "ValueError", "KeyError"}

(***************************************************************************)
(* config_flow.py                                                          *)
(***************************************************************************)
Usernames == {"alice", "bob"}

Passwords == {"pw1", "pw2"}

\* user_input: None, or the two fields of STEP_USER_DATA_SCHEMA
NoInput == [given |-> FALSE, username |-> "", password |-> ""]

UserInputs ==
    {NoInput} \cup
    {[given |-> TRUE, username |-> u, password |-> p] : u \in Usernames, p \in Passwords}

\* api.login: TRUE, FALSE, or the class it raises
LoginOutcomes == {"True", "False"} \cup ApiFaults

_validate_credentials(login) ==
    IF login \in ApiFaults THEN Raise(login)
    ELSE IF login = "False" THEN Ok(FALSE)
    ELSE Ok(TRUE)

\* _validate_input with the result of _validate_credentials not looked at
ValidateIgnoringResult(login) ==
    LET r == _validate_credentials(login)
    IN  IF r.exc # NoExc THEN r ELSE Ok(TRUE)

_validate_input(login) ==
    LET r == _validate_credentials(login)
    IN  IF r.exc # NoExc THEN r
        ELSE IF ~r.val THEN Raise("InvalidAuth")
        ELSE Ok(TRUE)

\* the except clauses without the last, broad one
StepErrorsTypedOnly(cls) ==
    IF IsInstance(cls, "CannotConnect") THEN "cannot_connect"
    ELSE IF IsInstance(cls, "InvalidAuth") THEN "invalid_auth"
    ELSE "uncaught"

\* the except clauses of async_step_user, in order
StepErrors(cls) ==
    IF IsInstance(cls, "CannotConnect") THEN "cannot_connect"
    ELSE IF IsInstance(cls, "InvalidAuth") THEN "invalid_auth"
    ELSE IF IsInstance(cls, "Exception") THEN "unknown"
    ELSE "uncaught"

UniqueIdOf(user_input) == <<"discovergy_smart_meter", user_input.username>>

\* ConfigFlow._abort_if_unique_id_configured (the host's flow base class)
_abort_if_unique_id_configured(es, unique_id) ==
    IF \E i \in 1..Len(es) : es[i].unique_id = unique_id
    THEN Raise("AbortFlow")
    ELSE Ok(TRUE)

ShowForm(errors) == [type |-> "form", step_id |-> "user", errors |-> errors, reason |-> ""]

AbortResult(reason) == [type |-> "abort", step_id |-> "", errors |-> "", reason |-> reason]

CreateEntryResult == [type |-> "create_entry", step_id |-> "", errors |-> "", reason |-> ""]

\* the else: branch of the try statement, without the duplicate check
CreateAlways(es, user_input) ==
    [result  |-> CreateEntryResult,
     entries |-> Append(es, [unique_id |-> UniqueIdOf(user_input),
                             title |-> "Discovergy Smart Meter",
                             data |-> [username |-> user_input.username,
                                       password |-> user_input.password]]),
     calls   |-> {"async_set_unique_id", "async_create_entry"}]

\* the else: branch of the try statement
CreateOrAbort(es, user_input) ==
    LET uid == UniqueIdOf(user_input)
    IN  IF _abort_if_unique_id_configured(es, uid).exc # NoExc
        THEN [result  |-> AbortResult("already_configured"),
              entries |-> es,
              calls   |-> {"async_set_unique_id"}]
        ELSE [result  |-> CreateEntryResult,
              entries |-> Append(es, [unique_id |-> uid,
                                      title |-> "Discovergy Smart Meter",
                                      data |-> [username |-> user_input.username,
                                                password |-> user_input.password]]),
              calls   |-> {"async_set_unique_id", "async_create_entry"}]

VARIABLES
    entries,     \* the host's configuration entries of this domain
    result,      \* what the last call of async_step_user returned
    lastStep,    \* the last call of async_step_user: its input and what it did
    added,       \* the entities the last async_setup_entry gave async_add_entities
    setup,       \* the last call of async_setup_entry: its input and result
    sensors,     \* the DiscovergyMeterSensor entities of one meter
    lastPoll     \* the last call of async_update: its input and what it did

vars == <<entries, result, lastStep, added, setup, sensors, lastPoll>>

flowVars == <<entries, result, lastStep>>

setupVars == <<added, setup>>

pollVars == <<sensors, lastPoll>>

NoResult == [type |-> "none", step_id |-> "", errors |-> "", reason |-> ""]

NoStep == [called |-> FALSE, user_input |-> NoInput, login |-> "",
           before |-> <<>>, calls |-> {}, raised |-> NoExc]

InitFlow ==
    /\ entries = <<>>
    /\ result = NoResult
    /\ lastStep = NoStep

async_step_user(user_input, login) ==
    /\ IF ~user_input.given
       THEN /\ result' = ShowForm("")
            /\ entries' = entries
            /\ lastStep' = [called |-> TRUE, user_input |-> user_input, login |-> "",
                            before |-> entries, calls |-> {}, raised |-> NoExc]
       ELSE LET v == _validate_input(login)
            IN  IF v.exc # NoExc
                THEN /\ entries' = entries
                     /\ IF StepErrors(v.exc) = "uncaught"
                        THEN /\ result' = NoResult
                             /\ lastStep' = [called |-> TRUE, user_input |-> user_input,
                                             login |-> login, before |-> entries,
                                             calls |-> {}, raised |-> v.exc]
                        ELSE /\ result' = ShowForm(StepErrors(v.exc))
                             /\ lastStep' = [called |-> TRUE, user_input |-> user_input,
                                             login |-> login, before |-> entries,
                                             calls |-> {}, raised |-> NoExc]
                ELSE LET c == CreateOrAbort(entries, user_input)
                     IN  /\ result' = c.result
                         /\ entries' = c.entries
                         /\ lastStep' = [called |-> TRUE, user_input |-> user_input,
                                         login |-> login, before |-> entries,
                                         calls |-> c.calls, raised |-> NoExc]
    /\ UNCHANGED <<setupVars, pollVars>>

(***************************************************************************)
(* sensor.py: constants and the entity                                     *)
(***************************************************************************)
CONF_ENERGY == "energy"

CONF_POWER == "power"

DEFAULT_SENSORS == <<CONF_ENERGY, CONF_POWER>>

SENSOR_TYPES ==
    [energy |-> [name |-> "Energy Consumed", unit |-> "kWh", class |-> "energy",
                 api_name |-> "energy",
                 scale |-> TrueDiv(IntOf(1), IntPow(IntOf(10), 10))],
     power  |-> [name |-> "Power", unit |-> "W", class |-> "power",
                 api_name |-> "power",
                 scale |-> TrueDiv(IntOf(1), IntOf(1000))]]

\* const.py
SUPPORTED_METER_TYPES == {"ELECTRICITY"}

\* None
PyNone == <<>>

\* DiscovergyMeterSensor.__init__
DiscovergyMeterSensor(username, meter_id, sensor_type, location) ==
    [username             |-> username,
     meter_id             |-> meter_id,
     _state               |-> PyNone,
     _attrs               |-> [location |-> location],
     _name                |-> SENSOR_TYPES[sensor_type].name,
     _unit_of_measurement |-> SENSOR_TYPES[sensor_type].unit,
     _scale               |-> SENSOR_TYPES[sensor_type].scale,
     sensor_type          |-> sensor_type,
     api_sensor_type      |-> SENSOR_TYPES[sensor_type].api_name]

(***************************************************************************)
(* sensor.py: async_setup_entry                                            *)
(***************************************************************************)
MaxMeters == 3

MeterIds == {"m1", "m2", "m3"}

MeasurementTypes == {"ELECTRICITY", "GAS"}

Locations == {"Aachen", "Bonn"}

Meters == [meterId : MeterIds, measurementType : MeasurementTypes, location : Locations]

RECURSIVE SeqsUpTo(_, _)
SeqsUpTo(S, n) ==
    IF n = 0 THEN {<<>>}
    ELSE LET shorter == SeqsUpTo(S, n - 1)
         IN  shorter \cup {Append(s, x) : s \in {t \in shorter : Len(t) = n - 1}, x \in S}

\* what api.get_meters gives: it raises, or returns None, or a list of meters
MetersResponses ==
    {[kind |-> "raise", exc |-> c, meters |-> <<>>] : c \in ApiFaults} \cup
    {[kind |-> "none", exc |-> NoExc, meters |-> <<>>]} \cup
    {[kind |-> "list", exc |-> NoExc, meters |-> l] : l \in SeqsUpTo(Meters, MaxMeters)}

\* the configuration entry being set up
ConfigEntry == [data |-> [username |-> "alice", password |-> "pw1"]]

\* d[k] = v on a dict kept as its items in insertion order
DictPut(d, k, v) ==
    IF \E i \in 1..Len(d) : d[i][1] = k
    THEN [i \in 1..Len(d) |-> IF d[i][1] = k THEN <<k, v>> ELSE d[i]]
    ELSE Append(d, <<k, v>>)

\* the comprehension without its if clause
RECURSIVE MetersDictAll(_, _)
MetersDictAll(listing, n) ==
    IF n = 0 THEN <<>>
    ELSE DictPut(MetersDictAll(listing, n - 1), listing[n].meterId,
                 [location |-> listing[n].location])

\* the dict comprehension over the first n meters of the listing
RECURSIVE MetersDict(_, _)
MetersDict(listing, n) ==
    IF n = 0 THEN <<>>
    ELSE IF listing[n].measurementType \in SUPPORTED_METER_TYPES
    THEN DictPut(MetersDict(listing, n - 1), listing[n].meterId,
                 [location |-> listing[n].location])
    ELSE MetersDict(listing, n - 1)

\* the nested loops building the entities
EntitiesFor(username, d) ==
    [k \in 1..(Len(d) * Len(DEFAULT_SENSORS)) |->
        LET item == d[((k - 1) \div Len(DEFAULT_SENSORS)) + 1]
        IN  DiscovergyMeterSensor(username, item[1],
                                  DEFAULT_SENSORS[((k - 1) % Len(DEFAULT_SENSORS)) + 1],
                                  item[2].location)]

NoSetup == [called |-> FALSE, login |-> "", response |-> [kind |-> "none", exc |-> NoExc, meters |-> <<>>],
            returned |-> "", raised |-> NoExc, add_calls |-> 0]

InitSetup ==
    /\ added = <<>>
    /\ setup = NoSetup

\* the host sets a loaded entry's platform up once
async_setup_entry(login, response) ==
    /\ ~setup.called
    /\ IF login \in ApiFaults
       THEN /\ added' = <<>>
            /\ setup' = [called |-> TRUE, login |-> login, response |-> NoSetup.response,
                         returned |-> "", raised |-> login, add_calls |-> 0]
       ELSE IF response.kind = "raise"
       THEN /\ added' = <<>>
            /\ setup' = [called |-> TRUE, login |-> login, response |-> response,
                         returned |-> "", raised |-> response.exc, add_calls |-> 0]
       ELSE IF response.kind = "none" \/ response.meters = <<>>
       THEN /\ added' = <<>>
            /\ setup' = [called |-> TRUE, login |-> login, response |-> response,
                         returned |-> "False", raised |-> NoExc, add_calls |-> 0]
       ELSE /\ added' = EntitiesFor(ConfigEntry.data.username,
                                    MetersDict(response.meters, Len(response.meters)))
            /\ setup' = [called |-> TRUE, login |-> login, response |-> response,
                         returned |-> "True", raised |-> NoExc, add_calls |-> 1]
    /\ UNCHANGED <<flowVars, pollVars>>

\* the host unloads the entry: its entities are removed, and it can be set up again
UnloadEntry ==
    /\ setup.called
    /\ added' = <<>>
    /\ setup' = NoSetup
    /\ UNCHANGED <<flowVars, pollVars>>

(***************************************************************************)
(* sensor.py: DiscovergyMeterSensor.async_update                           *)
(***************************************************************************)
MaxFeed == 3

MaxMalformedFeed == 2

Times == 1..3

\* the raw readings the API reports for a sensor type
RawValues(sensor_type) ==
    IF sensor_type = CONF_ENERGY
    THEN {IntMul(IntOf(7), IntPow(IntOf(10), 11)), IntPow(IntOf(10), 12)}
    ELSE {IntOf(480), IntOf(500)}

\* d["values"] as the sensor reads it: the key "values" is absent, or its
\* value is no dict, or the dict lacks the sensor's field, or the field is
\* no number, or the field is an int
FieldTags == {"absent", "notdict", "nofield", "nonnum", "int"}

Field(tag, n) == [tag |-> tag, n |-> IF tag = "int" THEN n ELSE IntOf(0)]

\* an element of the list get_readings returns, as the API documents it:
\* {time, values: {kind -> int}}
RawSamples(sensor_type) ==
    {[hasTime |-> TRUE, time |-> t, values |-> Field("int", n)] :
        t \in Times, n \in RawValues(sensor_type)}

\* an element that lacks a key or holds something else
MalformedSamples ==
    {[hasTime |-> FALSE, time |-> 0, values |-> Field("absent", IntOf(0))]} \cup
    {[hasTime |-> TRUE, time |-> t, values |-> Field(tag, IntOf(0))] :
        t \in Times, tag \in FieldTags \ {"int"}}

SensorKinds == {CONF_ENERGY, CONF_POWER}

\* the feeds of an API that keeps to its documented shape
Feeds == [k \in SensorKinds |-> SeqsUpTo(RawSamples(k), MaxFeed)]

\* the feeds of an API that may also return malformed elements
MalformedFeeds ==
    [k \in SensorKinds |-> SeqsUpTo(RawSamples(k) \cup MalformedSamples, MaxMalformedFeed)]

\* line 168: the (time, values) pairs, or the KeyError of the first element
\* that lacks one of the two keys
TimeValuePairs(feed) ==
    IF \E i \in 1..Len(feed) : ~feed[i].hasTime \/ feed[i].values.tag = "absent"
    THEN Raise("KeyError")
    ELSE Ok([i \in 1..Len(feed) |-> <<feed[i].time, feed[i].values>>])

\* list.sort(key=time) is stable: an element goes after those with a key <= its own
RECURSIVE InsertAscending(_, _)
InsertAscending(s, x) ==
    IF s = <<>> THEN <<x>>
    ELSE IF s[Len(s)][1] <= x[1] THEN Append(s, x)
    ELSE Append(InsertAscending(SubSeq(s, 1, Len(s) - 1), x), s[Len(s)])

RECURSIVE SortAscending(_)
SortAscending(s) ==
    IF s = <<>> THEN <<>>
    ELSE InsertAscending(SortAscending(SubSeq(s, 1, Len(s) - 1)), s[Len(s)])

\* list.sort(key=time, reverse=True) is stable too: an element goes after
\* those with a key >= its own
RECURSIVE InsertDescending(_, _)
InsertDescending(s, x) ==
    IF s = <<>> THEN <<x>>
    ELSE IF s[Len(s)][1] >= x[1] THEN Append(s, x)
    ELSE Append(InsertDescending(SubSeq(s, 1, Len(s) - 1), x), s[Len(s)])

RECURSIVE SortDescending(_)
SortDescending(s) ==
    IF s = <<>> THEN <<>>
    ELSE InsertDescending(SortDescending(SubSeq(s, 1, Len(s) - 1)), s[Len(s)])

\* the list left as get_readings gave it
Unsorted(s) == s

\* line 169
TimeSorted(s) == SortDescending(s)

\* time_sorted_data[i][1][api_sensor_type], i counted from 1
Item(tsd, i) ==
    IF i > Len(tsd) THEN Raise("IndexError")
    ELSE IF tsd[i][2].tag = "notdict" THEN Raise("TypeError")
    ELSE IF tsd[i][2].tag = "nofield" THEN Raise("KeyError")
    ELSE Ok(tsd[i][2])

\* a - b on what the fields hold
PySub(a, b) ==
    IF a.tag # "int" \/ b.tag # "int" THEN Raise("TypeError")
    ELSE Ok(Field("int", IntSub(a.n, b.n)))

\* reading * self._scale
PyScale(reading, scale) ==
    IF reading.tag # "int" THEN Raise("TypeError")
    ELSE Ok(<<IntTimesFloat(reading.n, scale)>>)

\* lines 171-177
Reading(sensor, tsd) ==
    IF sensor.sensor_type = CONF_ENERGY
    THEN LET a == Item(tsd, 1)
         IN  IF a.exc # NoExc THEN a
             ELSE LET b == Item(tsd, 2)
                  IN  IF b.exc # NoExc THEN b ELSE PySub(a.val, b.val)
    ELSE Item(tsd, 1)

\* the body of the try statement: the new _state, or the class raised
TryUpdate(sensor, login, response) ==
    IF login \in ApiFaults THEN Raise(login)
    ELSE IF response.kind = "raise" THEN Raise(response.exc)
    ELSE LET pairs == TimeValuePairs(response.feed)
         IN  IF pairs.exc # NoExc THEN pairs
             ELSE LET r == Reading(sensor, TimeSorted(pairs.val))
                  IN  IF r.exc # NoExc THEN r ELSE PyScale(r.val, sensor._scale)

\* except (ValueError, KeyError)
CaughtWithoutIndexError(cls) ==
    \/ IsInstance(cls, "ValueError")
    \/ IsInstance(cls, "KeyError")

\* except (ValueError, KeyError, IndexError)
Caught(cls) ==
    \/ IsInstance(cls, "ValueError")
    \/ IsInstance(cls, "KeyError")
    \/ IsInstance(cls, "IndexError")

\* what api.get_readings gives: it raises, or returns a list
ReadingsResponses ==
    [k \in SensorKinds |->
        {[kind |-> "raise", exc |-> c, feed |-> <<>>] : c \in ApiFaults} \cup
        {[kind |-> "list", exc |-> NoExc, feed |-> f] : f \in Feeds[k]}]

MalformedResponses ==
    [k \in SensorKinds |->
        {[kind |-> "raise", exc |-> c, feed |-> <<>>] : c \in ApiFaults} \cup
        {[kind |-> "list", exc |-> NoExc, feed |-> f] : f \in MalformedFeeds[k]}]

NoPoll == [called |-> FALSE, index |-> 0, login |-> "",
           response |-> [kind |-> "list", exc |-> NoExc, feed |-> <<>>],
           before |-> PyNone, warned |-> FALSE, raised |-> NoExc]

\* the two entities async_setup_entry creates for a meter
InitPoll ==
    /\ sensors = EntitiesFor(ConfigEntry.data.username,
                             <<<<"m1", [location |-> "Aachen"]>>>>)
    /\ lastPoll = NoPoll

\* the host calls async_update of an entity once per SCAN_INTERVAL
async_update(i, login, response) ==
    LET self == sensors[i]
        r    == TryUpdate(self, login, response)
        seen == IF login \in ApiFaults THEN NoPoll.response ELSE response
    IN  /\ ~lastPoll.called
        /\ IF r.exc = NoExc
           THEN /\ sensors' = [sensors EXCEPT ![i]._state = r.val]
                /\ lastPoll' = [called |-> TRUE, index |-> i, login |-> login,
                                response |-> seen, before |-> self._state,
                                warned |-> FALSE, raised |-> NoExc]
           ELSE /\ sensors' = sensors
                /\ lastPoll' = [called |-> TRUE, index |-> i, login |-> login,
                                response |-> seen, before |-> self._state,
                                warned |-> Caught(r.exc),
                                raised |-> IF Caught(r.exc) THEN NoExc ELSE r.exc]
        /\ UNCHANGED <<flowVars, setupVars>>

\* SCAN_INTERVAL passes: the entity is due again, its _state as the update left it
ScanInterval ==
    /\ lastPoll.called
    /\ lastPoll' = NoPoll
    /\ UNCHANGED <<sensors, flowVars, setupVars>>

(***************************************************************************)
(* The three parts of the integration, each under the inputs its           *)
(* environment can give it.                                                *)
(***************************************************************************)
Init == InitFlow /\ InitSetup /\ InitPoll

NextFlow ==
    \E user_input \in UserInputs, login \in LoginOutcomes :
        async_step_user(user_input, login)

\* the entry's platform is set up: the login fails, or it succeeds and get_meters answers
Setup ==
    \/ \E login \in ApiFaults : async_setup_entry(login, NoSetup.response)
    \/ \E response \in MetersResponses : async_setup_entry("True", response)

NextSetup == Setup \/ UnloadEntry

\* an entity is updated: the login fails, or it succeeds and get_readings answers
Update(responses) ==
    /\ ~lastPoll.called
    /\ \E i \in 1..Len(sensors) :
          \/ \E login \in ApiFaults : async_update(i, login, NoPoll.response)
          \/ \E response \in responses[sensors[i].sensor_type] :
                async_update(i, "True", response)

NextPoll == Update(ReadingsResponses) \/ ScanInterval

NextPollMalformed == Update(MalformedResponses) \/ ScanInterval

\* the setup wizard
SpecFlow == Init /\ [][NextFlow]_vars

\* entity discovery
SpecSetup == Init /\ [][NextSetup]_vars

\* polling an API that keeps to its documented shape, or raises
SpecPoll == Init /\ [][NextPoll]_vars

\* polling an API that may also return malformed elements
SpecPollMalformed == Init /\ [][NextPollMalformed]_vars

(***************************************************************************)
(* Properties                                                              *)
(***************************************************************************)
Submitted == lastStep.called /\ lastStep.user_input.given

\* the identity token the setup registers for a username
Identity(u) == <<"discovergy_smart_meter", u>>

\* C1: whenever the login call raises a transport-level fault, the step
\* re-shows the form with errors["base"] = "cannot_connect" and creates no
\* entry.
C1_TransportFaultIsCannotConnect ==
    (Submitted /\ lastStep.login \in ApiFaults) =>
        /\ result = ShowForm("cannot_connect")
        /\ entries = lastStep.before

\* C2: whenever the login call returns a falsy result, the step re-shows
\* the form with errors["base"] = "invalid_auth", calls neither
\* async_set_unique_id nor async_create_entry, and creates no entry.
C2_InvalidAuthPath ==
    (Submitted /\ lastStep.login = "False") =>
        /\ result = ShowForm("invalid_auth")
        /\ lastStep.raised = NoExc
        /\ lastStep.calls = {}
        /\ entries = lastStep.before

C2_Witness ==
    /\ Submitted
    /\ lastStep.login = "False"
    /\ result.errors = "invalid_auth"
    /\ \E i \in 1..Len(entries) :
          entries[i].data.username = lastStep.user_input.username

\* C3: once a setup with username u has created an entry, every later
\* submission with username u and valid credentials aborts before
\* async_create_entry, and no identity ever has more than one entry.
C3_OneEntryPerIdentity ==
    /\ \A u \in Usernames :
          Cardinality({i \in 1..Len(entries) : entries[i].unique_id = Identity(u)}) <= 1
    /\ (/\ Submitted
        /\ lastStep.login = "True"
        /\ \E i \in 1..Len(lastStep.before) :
              lastStep.before[i].unique_id = Identity(lastStep.user_input.username))
       => /\ result.type = "abort"
          /\ "async_create_entry" \notin lastStep.calls
          /\ entries = lastStep.before

C3_Witness ==
    /\ Submitted
    /\ lastStep.login = "True"
    /\ result.type = "abort"
    /\ \E i \in 1..Len(entries) :
          /\ entries[i].unique_id = Identity(lastStep.user_input.username)
          /\ entries[i].data.password # lastStep.user_input.password

\* C10: every exception raised while validating the credentials, other than
\* CannotConnect and InvalidAuth, is caught: the step returns the user form
\* with errors["base"] = "unknown" and creates no entry.
C10_UnexpectedFaultIsUnknown ==
    (Submitted /\ lastStep.login \in ApiFaults) =>
        /\ lastStep.raised = NoExc
        /\ result = ShowForm("unknown")
        /\ result.errors \notin {"cannot_connect", "invalid_auth"}
        /\ lastStep.calls = {}
        /\ entries = lastStep.before

C10_Witness ==
    /\ Submitted
    /\ lastStep.login \in ApiFaults
    /\ result.type = "form"
    /\ result.errors = "unknown"

\* the meters of the last listing, when get_meters returned one
Listing == setup.response.meters

GotListing == setup.called /\ setup.raised = NoExc /\ setup.response.kind = "list"

DistinctMeterIds ==
    \A i, j \in 1..Len(Listing) : i # j => Listing[i].meterId # Listing[j].meterId

Supported(m) == m.measurementType \in SUPPORTED_METER_TYPES

EntitiesOf(meter_id) == {k \in 1..Len(added) : added[k].meter_id = meter_id}

\* C7: for a listing with distinct meter ids, async_setup_entry adds
\* exactly two entities (one energy, one power, with the meter's id and
\* location) for each supported meter and none for any other; one supported
\* and one unsupported meter give exactly 2 entities.
C7_TwoEntitiesPerSupportedMeter ==
    (GotListing /\ DistinctMeterIds) =>
        /\ \A i \in 1..Len(Listing) :
              IF Supported(Listing[i])
              THEN /\ Cardinality(EntitiesOf(Listing[i].meterId)) = 2
                   /\ {added[k].sensor_type : k \in EntitiesOf(Listing[i].meterId)}
                         = {"energy", "power"}
                   /\ \A k \in EntitiesOf(Listing[i].meterId) :
                         /\ added[k]._attrs.location = Listing[i].location
                         /\ added[k]._state = PyNone
              ELSE EntitiesOf(Listing[i].meterId) = {}
        /\ Len(added) = 2 * Cardinality({i \in 1..Len(Listing) : Supported(Listing[i])})
        /\ (/\ Len(Listing) = 2
            /\ \E i, j \in 1..2 : Supported(Listing[i]) /\ ~Supported(Listing[j]))
           => Len(added) = 2

C7_Witness ==
    /\ GotListing
    /\ DistinctMeterIds
    /\ Len(Listing) = 2
    /\ ~Supported(Listing[1])
    /\ Supported(Listing[2])
    /\ Len(added) = 2
    /\ setup.add_calls = 1

\* C8: whenever the listing is empty or falsy, or holds no meter of a
\* supported type, async_setup_entry returns False and does not call
\* async_add_entities; it never reports success with zero entities.
C8_NothingUsableFails ==
    /\ (/\ setup.called
        /\ setup.raised = NoExc
        /\ \A i \in 1..Len(Listing) : ~Supported(Listing[i]))
       => (setup.returned = "False" /\ setup.add_calls = 0)
    /\ setup.returned = "True" => Len(added) > 0

Polled == lastPoll.called

PolledSensor == sensors[lastPoll.index]

GotFeed == Polled /\ lastPoll.login \notin ApiFaults /\ lastPoll.response.kind = "list"

Feed == lastPoll.response.feed

WellFormedFeed == \A i \in 1..Len(Feed) : Feed[i].hasTime /\ Feed[i].values.tag = "int"

DistinctTimes == \A i, j \in 1..Len(Feed) : i # j => Feed[i].time # Feed[j].time

\* the place in the feed of the sample with the greatest timestamp
Newest == CHOOSE i \in 1..Len(Feed) : \A j \in 1..Len(Feed) : Feed[j].time <= Feed[i].time

\* the place of the sample with the greatest timestamp but one
SecondNewest ==
    CHOOSE i \in 1..Len(Feed) \ {Newest} :
        \A j \in 1..Len(Feed) \ {Newest} : Feed[j].time <= Feed[i].time

RawSample(t, n) == [hasTime |-> TRUE, time |-> t, values |-> Field("int", n)]

\* 30.0 = 15 * 2^49 * 2^-48
Thirty == [neg |-> FALSE, mant |-> LShl(LOfNat(15), 49), exp |-> -48]

\* 0.5 = 2^52 * 2^-53
Half == [neg |-> FALSE, mant |-> LShl(LOfNat(1), 52), exp |-> -53]

EnergyExample ==
    LET new == RawSample(2, IntPow(IntOf(10), 12))
        old == RawSample(1, IntMul(IntOf(7), IntPow(IntOf(10), 11)))
    IN  {<<new, old>>, <<old, new>>}

PowerExample ==
    LET new == RawSample(2, IntOf(500))
        old == RawSample(1, IntOf(480))
    IN  {<<new, old>>, <<old, new>>}

\* C4: an energy sensor given at least two samples with distinct timestamps
\* and the energy field present, in any order, publishes (most recent value
\* - second most recent value) * scale; (t2, 10^12), (t1, 7 * 10^11) give 30.0.
C4_EnergyIsDeltaOfTwoNewest ==
    (/\ GotFeed
     /\ PolledSensor.sensor_type = CONF_ENERGY
     /\ Len(Feed) >= 2
     /\ WellFormedFeed
     /\ DistinctTimes)
    => /\ lastPoll.raised = NoExc
       /\ ~lastPoll.warned
       /\ PolledSensor._state =
             <<IntTimesFloat(IntSub(Feed[Newest].values.n, Feed[SecondNewest].values.n),
                             SENSOR_TYPES["energy"].scale)>>
       /\ Feed \in EnergyExample => PolledSensor._state = <<Thirty>>

C4_Witness ==
    /\ GotFeed
    /\ PolledSensor.sensor_type = CONF_ENERGY
    /\ Len(Feed) = 3
    /\ WellFormedFeed
    /\ DistinctTimes
    /\ Feed[1].time = 1
    /\ Feed[2].time = 3
    /\ Feed[1].values.n # Feed[3].values.n
    /\ lastPoll.before # PyNone
    /\ PolledSensor._state = <<Thirty>>

\* C5: a power sensor given a non-empty feed with distinct timestamps and
\* the power field present publishes (value of the sample with the greatest
\* timestamp) * scale, whatever the order of the feed; (t2, 500), (t1, 480)
\* give 0.5 in either order.
C5_PowerIsNewestValue ==
    (/\ GotFeed
     /\ PolledSensor.sensor_type = CONF_POWER
     /\ Len(Feed) >= 1
     /\ WellFormedFeed
     /\ DistinctTimes)
    => /\ lastPoll.raised = NoExc
       /\ ~lastPoll.warned
       /\ PolledSensor._state =
             <<IntTimesFloat(Feed[Newest].values.n, SENSOR_TYPES["power"].scale)>>
       /\ Feed \in PowerExample => PolledSensor._state = <<Half>>

C5_Witness ==
    /\ GotFeed
    /\ PolledSensor.sensor_type = CONF_POWER
    /\ Feed = <<RawSample(1, IntOf(480)), RawSample(2, IntOf(500))>>
    /\ lastPoll.before # PyNone
    /\ lastPoll.before # <<Half>>
    /\ PolledSensor._state = <<Half>>

\* C6: an energy sensor in any prior state, given fewer than two samples,
\* returns without raising and keeps the state it had before the call.
C6_ShortFeedKeepsState ==
    (/\ GotFeed
     /\ PolledSensor.sensor_type = CONF_ENERGY
     /\ Len(Feed) < 2)
    => /\ lastPoll.raised = NoExc
       /\ PolledSensor._state = lastPoll.before

C6_Witness ==
    /\ GotFeed
    /\ PolledSensor.sensor_type = CONF_ENERGY
    /\ Len(Feed) = 1
    /\ lastPoll.warned
    /\ lastPoll.before = <<Thirty>>
    /\ PolledSensor._state = <<Thirty>>

\* C9: every fault during a poll is swallowed: whatever the re-login,
\* get_readings or the extraction of the fields raises, async_update does
\* not raise and the state stays at its previous value.
C9_EveryPollFaultSwallowed ==
    Polled =>
        /\ lastPoll.raised = NoExc
        /\ lastPoll.warned => PolledSensor._state = lastPoll.before
=============================================================================
